---- MODULE Spec2Model ----
(***************************************************************************)
(* Model of the coordination layer of project-genesis:                     *)
(* agents/coordination/core/agent.py (CoordinationAgent), together with    *)
(* the status bookkeeping of agents/shared/base_agent.py and the execute   *)
(* methods of GenesisSetupAgent and GenesisFeatureAgent.                   *)
(*                                                                         *)
(* Concurrency is asyncio's: single threaded and cooperative.  One action  *)
(* of the model is the code that runs between two suspension points.  The  *)
(* worker calls that really suspend are the I/O awaits inside the agents'  *)
(* execute methods and the wait on the Features phase's semaphore;         *)
(* BaseAgent.initialize and the planning coroutines contain no suspending  *)
(* await and therefore run inside the step that calls them.                *)
(***************************************************************************)
EXTENDS Integers, Sequences, FiniteSets, TLC

VARIABLES
    pc,              \* position of CoordinationAgent.execute
    runs,            \* number of execute calls made on this coordinator
    caStatus,        \* CoordinationAgent.status
    managed_agents,  \* CoordinationAgent.managed_agents, in insertion order
    task_spec,       \* the argument of the current execute call
    plan,            \* execution_plan of the current execute call
    results,         \* the results dict of _execute_plan
    setupState,      \* the setup task of this run: none, running, returned, raised
    setupAgent,      \* id of the setup worker of this run
    tasks,           \* the coroutines gather() runs: position and worker id
    gathered,        \* the per-position result slots of gather()
    sem,             \* the asyncio.Semaphore of _execute_parallel
    nextStart,       \* next gather() child the event loop starts
    ret,             \* what execute returned to its caller
    regAtStart,      \* size of managed_agents when this run began
    featCtor,        \* GenesisFeatureAgent constructions made in this run
    finished,        \* gather() children of this run, in the order they ended
    spawned,         \* ids given to the workers constructed in this run, in order
    metrics,         \* the metrics dict execute computed in step 5
    validated,       \* what validate(result) answered for the returned result
    report,          \* what a direct call of _validate_results answered
    worker,          \* one agent's task tracking: BaseAgent.current_task, metrics, errors
    ers              \* an ErrorRecoverySystem: patterns, history, calls being handled

vars == <<pc, runs, caStatus, managed_agents, task_spec, plan, results,
          setupState, setupAgent, tasks, gathered, sem, nextStart, ret,
          regAtStart, featCtor, finished, spawned, metrics, validated,
          report, worker, ers>>

(* the coordinator's run *)
coordVars == <<pc, runs, caStatus, managed_agents, task_spec, plan, results,
               setupState, setupAgent, tasks, gathered, sem, nextStart, ret,
               regAtStart, featCtor, finished, spawned, metrics, validated>>

----------------------------------------------------------------------------
(* Bounds of the model *)

MaxFeatures == 3
MaxParallel == 2
MaxRuns == 2

(* Values *)

None == "None"
FeatureNames == {"a", "b"}
ProjectIds == {None, "p1"}
NoAgent == <<"none", 0>>
NoPlan == [phases |-> <<>>]
NoResult == [returned |-> FALSE]
NoMetrics == [computed |-> FALSE]
NotValidated == [called |-> FALSE]
NoReport == [computed |-> FALSE]
DefaultMaxParallel == 3

(* measured durations of a run, in whole seconds *)
Durations == {0, 900}

FeatureLists == UNION {[1..n -> FeatureNames] : n \in 0..MaxFeatures}

(* if x: -- Python truthiness of an identifier value *)
Truthy(x) == x \notin {None, ""}

----------------------------------------------------------------------------
(* BaseAgent *)

NewAgent(id, type) == [id |-> id, type |-> type, status |-> "idle"]

UpdateStatus(agent, new_status) == [agent EXCEPT !.status = new_status]

(* BaseAgent.initialize: the status becomes planning *)
Initialize(agent) == UpdateStatus(agent, "planning")

(* BaseAgent.__init__: the task tracking of a new agent; in_flight counts
   the execute calls on it that are suspended in an await *)
NoTask == [in_progress |-> FALSE]

NewWorker ==
    [current_task |-> NoTask,
     tasks_completed |-> 0,
     errors |-> 0,
     tasks_executed |-> 0,
     tasks_succeeded |-> 0,
     tasks_failed |-> 0,
     in_flight |-> 0]

(* BaseAgent._track_task_start: current_task is replaced, whatever it was *)
TrackTaskStart(w) ==
    [w EXCEPT !.current_task = [in_progress |-> TRUE,
                                call |-> w.tasks_executed + 1],
              !.tasks_executed = @ + 1]

(* BaseAgent._track_task_complete: nothing is counted when current_task is
   not set *)
TrackTaskComplete(w, success) ==
    IF ~w.current_task.in_progress THEN w
    ELSE [w EXCEPT !.tasks_completed = @ + 1,
                   !.tasks_succeeded = IF success THEN @ + 1 ELSE @,
                   !.tasks_failed = IF success THEN @ ELSE @ + 1,
                   !.current_task = NoTask]

(* BaseAgent._handle_error: the error is appended to self.errors *)
HandleError(w) == [w EXCEPT !.errors = @ + 1]

(* ErrorRecoverySystem.__init__; calls are the handle_error calls made *)
NewErrorRecoverySystem ==
    [error_patterns |-> <<>>, error_history |-> <<>>, calls |-> <<>>]

----------------------------------------------------------------------------
(* The registry: a dict, keyed by agent id, kept in insertion order *)

IndexOf(reg, id) ==
    IF \E j \in 1..Len(reg) : reg[j].id = id
    THEN CHOOSE j \in 1..Len(reg) : reg[j].id = id
    ELSE 0

(* self.managed_agents[agent_id] = agent *)
Register(reg, agent) ==
    IF IndexOf(reg, agent.id) = 0
    THEN Append(reg, agent)
    ELSE [reg EXCEPT ![IndexOf(reg, agent.id)] = agent]

(* agent._update_status(s) on the worker object registered under id *)
SetAgentStatus(reg, id, s) ==
    [j \in 1..Len(reg) |->
        IF reg[j].id = id THEN UpdateStatus(reg[j], s) ELSE reg[j]]

(* f"{prefix}-{len(self.managed_agents) + 1}" *)
NextAgentId(prefix, reg) == <<prefix, Len(reg) + 1>>

----------------------------------------------------------------------------
(* Task planning *)

(* a plausible slip: features de-duplicated while the graph is built *)
PlanTasks_dedup(ts) ==
    LET fs == ts.features
        keep == SelectSeq([i \in 1..Len(fs) |-> i],
                          LAMBDA i : \A j \in 1..(i - 1) : fs[j] # fs[i])
    IN  [setup |-> [agent |-> "GenesisSetupAgent",
                    dependencies |-> <<>>,
                    parallel |-> FALSE,
                    task_spec |-> [description |-> ts.description,
                                   project_type |-> ts.project_type]],
         features |-> [i \in 1..Len(keep) |->
                   [agent |-> "GenesisFeatureAgent",
                    feature_name |-> fs[keep[i]],
                    dependencies |-> <<"setup">>,
                    parallel |-> TRUE,
                    task_spec |-> [feature_name |-> fs[keep[i]],
                                   description |-> <<"Implement", fs[keep[i]]>>]]]]

(* CoordinationAgent._plan_tasks *)
PlanTasks(ts) ==
    LET fs == ts.features
    IN  [setup |-> [agent |-> "GenesisSetupAgent",
                    dependencies |-> <<>>,
                    parallel |-> FALSE,
                    task_spec |-> [description |-> ts.description,
                                   project_type |-> ts.project_type]],
         features |-> [i \in 1..Len(fs) |->
                   [agent |-> "GenesisFeatureAgent",
                    feature_name |-> fs[i],
                    dependencies |-> <<"setup">>,
                    parallel |-> TRUE,
                    task_spec |-> [feature_name |-> fs[i],
                                   description |-> <<"Implement", fs[i]>>]]]]

(* CoordinationAgent._plan_execution *)
PlanExecution(task_graph, ts) ==
    [phases |-> << [name |-> "Setup",
                    parallel |-> FALSE,
                    tasks |-> <<task_graph.setup>>],
                   [name |-> "Features",
                    parallel |-> TRUE,
                    max_parallel |-> ts.max_parallel,
                    tasks |-> task_graph.features] >>]

(* a plausible slip: the project id put into the first task only *)
InjectProjectId_first(p, i, project_id) ==
    IF Truthy(project_id) /\ i = 1
    THEN [p EXCEPT !.phases[2].tasks[i].task_spec =
                        [k \in (DOMAIN @) \cup {"project_id"} |->
                            IF k = "project_id" THEN project_id ELSE @[k]]]
    ELSE p

(* task_spec["task_spec"]["project_id"] = project_id, under "if project_id" *)
InjectProjectId(p, i, project_id) ==
    IF Truthy(project_id)
    THEN [p EXCEPT !.phases[2].tasks[i].task_spec =
                        [k \in (DOMAIN @) \cup {"project_id"} |->
                            IF k = "project_id" THEN project_id ELSE @[k]]]
    ELSE p

----------------------------------------------------------------------------
(* asyncio.Semaphore, as used by execute_with_limit *)

(* a plausible slip: one slot too many *)
NewSemaphore_extra(k) == [value |-> k + 1, waiters |-> <<>>]

(* semaphore = asyncio.Semaphore(max_parallel) *)
NewSemaphore(k) == [value |-> k, waiters |-> <<>>]

(* asyncio.Semaphore(value) raises ValueError for a negative value *)
SemaphoreValueOk(k) == k >= 0

(* Semaphore.locked(): no free slot, or somebody is queued already *)
SemLocked(s) == s.value = 0 \/ Len(s.waiters) > 0

(* a plausible slip: the waiter queued last is woken *)
WakeTarget_last(s, t) ==
    IF \E j \in 1..Len(s.waiters) : t[s.waiters[j]].pc = "waiting"
    THEN s.waiters[CHOOSE j \in 1..Len(s.waiters) :
                        /\ t[s.waiters[j]].pc = "waiting"
                        /\ \A h \in (j + 1)..Len(s.waiters) :
                                t[s.waiters[h]].pc # "waiting"]
    ELSE 0

(* the first queued waiter whose future is not done yet, 0 if none *)
WakeTarget(s, t) ==
    IF \E j \in 1..Len(s.waiters) : t[s.waiters[j]].pc = "waiting"
    THEN s.waiters[CHOOSE j \in 1..Len(s.waiters) :
                        /\ t[s.waiters[j]].pc = "waiting"
                        /\ \A h \in 1..(j - 1) : t[s.waiters[h]].pc # "waiting"]
    ELSE 0

(* Semaphore._wake_up_next: hand a slot to the first waiter that is not done *)
WakeSem(s, t) ==
    IF WakeTarget(s, t) = 0 THEN s ELSE [s EXCEPT !.value = @ - 1]

WakeTasks(s, t) ==
    IF WakeTarget(s, t) = 0 THEN t
    ELSE [t EXCEPT ![WakeTarget(s, t)].pc = "woken"]

(* Semaphore.release, run when "async with semaphore" is left *)
ReleaseSem(s, t) == WakeSem([s EXCEPT !.value = @ + 1], t)

(* a plausible slip: release frees the slot but wakes nobody *)
ReleaseTasks_nowake(s, t) == t

ReleaseTasks(s, t) == WakeTasks([s EXCEPT !.value = @ + 1], t)

----------------------------------------------------------------------------
(* asyncio.gather(..., return_exceptions=True) *)

Pending == [kind |-> "pending"]
Exc(e) == [kind |-> "exception", error |-> e]
Res(v) == [kind |-> "result", value |-> v]

(* a plausible slip: a pool that waits for a completion that never comes *)
GatherDoneAtOnce_never(n) == FALSE

(* gather() of no children is done at once: awaiting it does not suspend *)
GatherDoneAtOnce(n) == n = 0

(* a plausible slip: results collected in completion order *)
GatherPlace_completion(g, i, v) ==
    LET first == CHOOSE j \in 1..Len(g) :
                    /\ g[j] = Pending
                    /\ \A h \in 1..(j - 1) : g[h] # Pending
    IN  [g EXCEPT ![first] = v]

(* gather() stores each child's outcome at the child's position *)
GatherPlace(g, i, v) == [g EXCEPT ![i] = v]

(* a plausible slip: return_exceptions left at its default *)
GatherRaises_default(g) == \E i \in 1..Len(g) : g[i].kind = "exception"

(* return_exceptions=True: gather() itself never raises a child's error *)
GatherRaises(g) == FALSE

(* a plausible slip: the loop stops at the first exception *)
ValidResults_break(g) ==
    LET upto == IF \E i \in 1..Len(g) : g[i].kind = "exception"
                THEN (CHOOSE i \in 1..Len(g) :
                        /\ g[i].kind = "exception"
                        /\ \A h \in 1..(i - 1) : g[h].kind # "exception") - 1
                ELSE Len(g)
    IN  [j \in 1..upto |-> g[j].value]

(* a plausible slip: a failed task kept as an entry *)
ValidResults_keep(g) ==
    [j \in 1..Len(g) |->
        IF g[j].kind = "exception" THEN [feature_name |-> None]
        ELSE g[j].value]

(* the filter loop of _execute_parallel: exceptions are logged and dropped *)
ValidResults(g) ==
    LET ok == SelectSeq(g, LAMBDA r : r.kind # "exception")
    IN  [j \in 1..Len(ok) |-> ok[j].value]

(* [r.get("feature_name") for r in phase_result] *)
FeatureNamesOf(phase_result) ==
    [j \in 1..Len(phase_result) |-> phase_result[j].feature_name]

----------------------------------------------------------------------------
(* Validation *)

(* a plausible slip: the loop over the registry misses its first entry *)
RECURSIVE CheckAgents_skipfirst(_, _, _)
CheckAgents_skipfirst(reg, j, validation) ==
    IF j > Len(reg) THEN validation
    ELSE CheckAgents_skipfirst(reg, j + 1,
            IF j > 1 /\ reg[j].status # "completed"
            THEN [validation EXCEPT !.all_agents_succeeded = FALSE,
                                    !.failed_agent = reg[j].id]
            ELSE validation)

(* the loop "for agent_id, agent in self.managed_agents.items()" of
   _validate_results, from entry j on: every agent that is not completed
   clears the flag and overwrites failed_agent *)
RECURSIVE CheckAgents(_, _, _)
CheckAgents(reg, j, validation) ==
    IF j > Len(reg) THEN validation
    ELSE CheckAgents(reg, j + 1,
            IF reg[j].status # "completed"
            THEN [validation EXCEPT !.all_agents_succeeded = FALSE,
                                    !.failed_agent = reg[j].id]
            ELSE validation)

(* a plausible slip: the count taken from the phase results seen so far *)
ValidateResults_count(execution_result, reg) ==
    CheckAgents(reg, 1,
        [project_created |-> execution_result.project_id # None,
         features_completed |-> Len(execution_result.phase_results),
         all_agents_succeeded |-> TRUE,
         failed_agent |-> NoAgent])

(* CoordinationAgent._validate_results; failed_agent is NoAgent while the
   key is not set *)
ValidateResults(execution_result, reg) ==
    CheckAgents(reg, 1,
        [project_created |-> execution_result.project_id # None,
         features_completed |-> Len(execution_result.features),
         all_agents_succeeded |-> TRUE,
         failed_agent |-> NoAgent])

(* a plausible slip: the check marks every agent it finds not completed
   as failed *)
ValidateResultsEffect_mark(execution_result, reg) ==
    [validation |-> ValidateResults(execution_result, reg),
     managed_agents |-> [j \in 1..Len(reg) |->
                            IF reg[j].status # "completed"
                            THEN UpdateStatus(reg[j], "error") ELSE reg[j]],
     execution_result |-> execution_result]

(* what a call of _validate_results leaves behind: the report it returns,
   and the registry and the execution result, which it only reads *)
ValidateResultsEffect(execution_result, reg) ==
    [validation |-> ValidateResults(execution_result, reg),
     managed_agents |-> reg,
     execution_result |-> execution_result]

(* CoordinationAgent.validate(result): the caller-facing check; "not x" is
   Python truthiness, so a null and an empty project_id both fail, and so
   does an empty features list *)
Validate(result) ==
    IF ~Truthy(result.project_id) THEN FALSE
    ELSE IF Len(result.features_completed) = 0 THEN FALSE
    ELSE TRUE

----------------------------------------------------------------------------
(* Metrics *)

SetupMinutes == 15
FeatureMinutes == 30
SecondsPerMinute == 60

(* a / b and the literal 1.0, kept as exact fractions *)
Quotient(a, b) == [num |-> a, den |-> b]
One == [num |-> 1, den |-> 1]
SameNumber(x, y) == x.den # 0 /\ y.den # 0 /\ x.num * y.den = y.num * x.den

(* a plausible slip: the division guarded by >= instead of > *)
GenerateMetrics_guard(execution_result, ts, reg) ==
    LET features_count == Len(ts.features)
        total_time == execution_result.duration
        estimated_sequential ==
            SetupMinutes * SecondsPerMinute
                + (features_count * FeatureMinutes * SecondsPerMinute)
        speedup == IF total_time >= 0
                   THEN Quotient(estimated_sequential, total_time)
                   ELSE One
    IN  [computed |-> TRUE,
         total_time_seconds |-> total_time,
         estimated_sequential_seconds |-> estimated_sequential,
         speedup |-> speedup,
         features_count |-> features_count,
         agents_used |-> Len(reg)]

(* CoordinationAgent._generate_metrics *)
GenerateMetrics(execution_result, ts, reg) ==
    LET features_count == Len(ts.features)
        total_time == execution_result.duration
        estimated_sequential ==
            SetupMinutes * SecondsPerMinute
                + (features_count * FeatureMinutes * SecondsPerMinute)
        speedup == IF total_time > 0
                   THEN Quotient(estimated_sequential, total_time)
                   ELSE One
    IN  [computed |-> TRUE,
         total_time_seconds |-> total_time,
         estimated_sequential_seconds |-> estimated_sequential,
         speedup |-> speedup,
         features_count |-> features_count,
         agents_used |-> Len(reg)]

----------------------------------------------------------------------------
(* The state after CoordinationAgent() *)

NoSemaphore == [value |-> 0, waiters |-> <<>>]
EmptyResults == [project_id |-> None, features |-> <<>>, phase_results |-> <<>>]

Init ==
    /\ pc = "idle"
    /\ runs = 0
    /\ caStatus = "idle"
    /\ managed_agents = <<>>
    /\ task_spec = [description |-> "x", project_type |-> None,
                    features |-> <<>>, max_parallel |-> DefaultMaxParallel]
    /\ plan = NoPlan
    /\ results = EmptyResults
    /\ setupState = "none"
    /\ setupAgent = NoAgent
    /\ tasks = <<>>
    /\ gathered = <<>>
    /\ sem = NoSemaphore
    /\ nextStart = 1
    /\ ret = NoResult
    /\ regAtStart = 0
    /\ featCtor = 0
    /\ finished = <<>>
    /\ spawned = <<>>
    /\ metrics = NoMetrics
    /\ validated = NotValidated
    /\ report = NoReport
    /\ worker = NewWorker
    /\ ers = NewErrorRecoverySystem

Terminal(t) == t.pc \in {"done", "failed"}

----------------------------------------------------------------------------
(* The tail of execute, from the end of the Features phase to the return:
   lines 266-279 of _execute_plan, then steps 4 and 5 of execute.  reg is
   the registry and res the results dict at that point, g gather()'s list. *)
Finish(res, g, reg) ==
    /\ managed_agents' = reg
    /\ IF GatherRaises(g)
       THEN /\ results' = res
            /\ ret' = NoResult
            /\ metrics' = metrics
            /\ caStatus' = "error"
            /\ pc' = "raised"
       ELSE \E d \in Durations :
            LET phase_result == ValidResults(g)
                res2 == [project_id |-> res.project_id,
                         features |-> FeatureNamesOf(phase_result),
                         phase_results |-> Append(res.phase_results,
                                                  phase_result),
                         duration |-> d]
                m == GenerateMetrics(res2, task_spec, reg)
            IN  /\ results' = res2
                /\ metrics' = m
                /\ ret' = [returned |-> TRUE,
                           project_id |-> res2.project_id,
                           features_completed |-> res2.features,
                           total_time_seconds |-> res2.duration,
                           parallel_speedup |-> m.speedup,
                           validation |-> ValidateResults(res2, reg)]
                /\ caStatus' = "completed"
                /\ pc' = "returned"

(* execute without the await on the setup phase: the Features phase is
   dispatched while the setup worker is still running *)
Execute_noawait(fs, k) ==
    /\ pc \in {"idle", "returned", "raised"}
    /\ runs < MaxRuns
    /\ runs' = runs + 1
    /\ LET ts == [description |-> "x", project_type |-> None,
                  features |-> fs, max_parallel |-> k]
           p == PlanExecution(PlanTasks(ts), ts)
           id == NextAgentId("gsa", managed_agents)
           agent == UpdateStatus(Initialize(
                        NewAgent(id, p.phases[1].tasks[1].agent)), "executing")
       IN  /\ task_spec' = ts
           /\ plan' = p
           /\ setupAgent' = id
           /\ managed_agents' = Register(managed_agents, agent)
           /\ setupState' = "running"
           /\ caStatus' = "executing"
           /\ pc' = "features"
           /\ tasks' = [i \in 1..Len(fs) |-> [pc |-> "created", agent |-> NoAgent]]
           /\ gathered' = [i \in 1..Len(fs) |-> Pending]
           /\ sem' = NewSemaphore(k)
    /\ results' = EmptyResults
    /\ nextStart' = 1
    /\ ret' = NoResult
    /\ regAtStart' = Len(managed_agents)
    /\ featCtor' = 0
    /\ finished' = <<>>
    /\ spawned' = <<NextAgentId("gsa", managed_agents)>>
    /\ metrics' = NoMetrics
    /\ validated' = NotValidated
    /\ UNCHANGED <<report, worker, ers>>

(* CoordinationAgent.execute, from the call to the first suspension: the
   plan is built, the Setup phase constructs, initializes and registers
   the setup worker and calls its execute, which suspends in its first
   I/O await.  A failing initialize propagates out of execute at once. *)
Execute(fs, k) ==
    /\ pc \in {"idle", "returned", "raised"}
    /\ runs < MaxRuns
    /\ runs' = runs + 1
    /\ LET ts == [description |-> "x", project_type |-> None,
                  features |-> fs, max_parallel |-> k]
           p == PlanExecution(PlanTasks(ts), ts)
           id == NextAgentId("gsa", managed_agents)
           agent == UpdateStatus(Initialize(
                        NewAgent(id, p.phases[1].tasks[1].agent)), "executing")
       IN  /\ task_spec' = ts
           /\ plan' = p
           /\ setupAgent' = id
           /\ \E initOk \in BOOLEAN :
                IF initOk
                THEN /\ managed_agents' = Register(managed_agents, agent)
                     /\ setupState' = "running"
                     /\ caStatus' = "executing"
                     /\ pc' = "setup"
                ELSE /\ managed_agents' = managed_agents
                     /\ setupState' = "raised"
                     /\ caStatus' = "error"
                     /\ pc' = "raised"
    /\ results' = EmptyResults
    /\ tasks' = <<>>
    /\ gathered' = <<>>
    /\ sem' = NoSemaphore
    /\ nextStart' = 1
    /\ ret' = NoResult
    /\ regAtStart' = Len(managed_agents)
    /\ featCtor' = 0
    /\ finished' = <<>>
    /\ spawned' = <<NextAgentId("gsa", managed_agents)>>
    /\ metrics' = NoMetrics
    /\ validated' = NotValidated
    /\ UNCHANGED <<report, worker, ers>>

(* The setup worker's execute returns a result whose project_id is id
   (project.get("id"), None when the service's answer carries no id).
   _execute_sequential returns, _execute_plan stores the project id and
   enters the Features phase: semaphore and gather() children are created.
   A negative max_parallel makes the semaphore's constructor raise, which
   propagates out of execute.  With no feature task gather() is done at
   once and execute runs on to its return. *)
SetupReturn(id) ==
    /\ pc = "setup"
    /\ setupState' = "returned"
    /\ LET reg == SetAgentStatus(managed_agents, setupAgent, "completed")
           phase_result == <<[project_id |-> id]>>
           res == [results EXCEPT
                      !.phase_results = Append(@, phase_result),
                      !.project_id = phase_result[1].project_id]
           phase == plan.phases[2]
           n == Len(phase.tasks)
       IN  IF ~SemaphoreValueOk(phase.max_parallel)
           THEN /\ managed_agents' = reg
                /\ results' = res
                /\ caStatus' = "error"
                /\ pc' = "raised"
                /\ UNCHANGED <<tasks, gathered, sem, ret, metrics>>
           ELSE IF GatherDoneAtOnce(n)
           THEN /\ Finish(res, <<>>, reg)
                /\ UNCHANGED <<tasks, gathered, sem>>
           ELSE /\ managed_agents' = reg
                /\ results' = res
                /\ tasks' = [i \in 1..n |-> [pc |-> "created", agent |-> NoAgent]]
                /\ gathered' = [i \in 1..n |-> Pending]
                /\ sem' = NewSemaphore(phase.max_parallel)
                /\ pc' = "features"
                /\ UNCHANGED <<ret, caStatus, metrics>>
    /\ nextStart' = 1
    /\ UNCHANGED <<runs, task_spec, plan, setupAgent, regAtStart, featCtor,
                   finished, spawned, validated>>
    /\ UNCHANGED <<report, worker, ers>>

(* a setup failure swallowed: the run goes on to the Features phase *)
SetupRaise_swallow ==
    /\ pc = "setup"
    /\ setupState' = "raised"
    /\ managed_agents' = SetAgentStatus(managed_agents, setupAgent, "error")
    /\ LET phase == plan.phases[2]
           n == Len(phase.tasks)
       IN  /\ tasks' = [i \in 1..n |-> [pc |-> "created", agent |-> NoAgent]]
           /\ gathered' = [i \in 1..n |-> Pending]
           /\ sem' = NewSemaphore(phase.max_parallel)
    /\ pc' = "features"
    /\ nextStart' = 1
    /\ UNCHANGED <<runs, caStatus, task_spec, plan, results, setupAgent, ret,
                   regAtStart, featCtor, finished, spawned, metrics, validated>>
    /\ UNCHANGED <<report, worker, ers>>

(* The setup worker's execute raises: the worker records the error and
   re-raises; nothing in _execute_sequential or _execute_plan catches it,
   so execute's handler records it on the coordinator and re-raises. *)
SetupRaise ==
    /\ pc = "setup"
    /\ setupState' = "raised"
    /\ managed_agents' = SetAgentStatus(managed_agents, setupAgent, "error")
    /\ caStatus' = "error"
    /\ pc' = "raised"
    /\ UNCHANGED <<runs, task_spec, plan, results, setupAgent, tasks, gathered,
                   sem, nextStart, ret, regAtStart, featCtor, finished, spawned,
                   metrics, validated>>
    /\ UNCHANGED <<report, worker, ers>>

----------------------------------------------------------------------------
(* The Features phase *)

(* The body of "async with semaphore" in execute_with_limit, up to the
   first suspension of the worker's execute.  t and s are the tasks and the
   semaphore once child i holds its slot.  When initialize raises, the
   worker is never registered, the slot is given back and the child ends
   with the exception. *)
Admit(i, initOk, t, s) ==
    LET id == NextAgentId("gfa", managed_agents)
        agent == UpdateStatus(Initialize(NewAgent(id, "GenesisFeatureAgent")),
                              "executing")
    IN  /\ featCtor' = featCtor + 1
        /\ spawned' = Append(spawned, id)
        /\ IF initOk
           THEN /\ managed_agents' = Register(managed_agents, agent)
                /\ plan' = InjectProjectId(plan, i, results.project_id)
                /\ tasks' = [t EXCEPT ![i] = [pc |-> "running", agent |-> id]]
                /\ sem' = s
                /\ gathered' = gathered
                /\ finished' = finished
           ELSE LET t1 == [t EXCEPT ![i].pc = "failed"]
                IN  /\ managed_agents' = managed_agents
                    /\ plan' = plan
                    /\ tasks' = ReleaseTasks(s, t1)
                    /\ sem' = ReleaseSem(s, t1)
                    /\ gathered' = GatherPlace(gathered, i,
                                               Exc("InitializationError"))
                    /\ finished' = Append(finished, i)

(* The event loop starts gather()'s children in list order.  Child i takes
   a slot when the semaphore is not locked, else queues on it. *)
StartTask(i) ==
    /\ pc = "features"
    /\ i = nextStart
    /\ i <= Len(tasks)
    /\ tasks[i].pc = "created"
    /\ nextStart' = nextStart + 1
    /\ IF ~SemLocked(sem)
       THEN \E initOk \in BOOLEAN :
                Admit(i, initOk, tasks, [sem EXCEPT !.value = @ - 1])
       ELSE /\ sem' = [sem EXCEPT !.waiters = Append(@, i)]
            /\ tasks' = [tasks EXCEPT ![i].pc = "waiting"]
            /\ UNCHANGED <<managed_agents, plan, gathered, featCtor, finished,
                           spawned>>
    /\ UNCHANGED <<pc, runs, caStatus, task_spec, results, setupState,
                   setupAgent, ret, regAtStart, metrics, validated>>
    /\ UNCHANGED <<report, worker, ers>>

(* Setting a waiter's future schedules the child on the event loop's ready
   queue, which is first in, first out; futures are set in the order of the
   waiter queue, which is the list order, so of the woken children the one
   earliest in the list resumes first. *)
ResumesNext(t, i) ==
    /\ t[i].pc = "woken"
    /\ \A h \in 1..(i - 1) : t[h].pc # "woken"

(* A queued child whose future was set resumes inside Semaphore.acquire:
   it leaves the waiter queue, passes a spare slot on, and runs the body. *)
Resume(i) ==
    /\ pc = "features"
    /\ i \in 1..Len(tasks)
    /\ ResumesNext(tasks, i)
    /\ LET s0 == [sem EXCEPT !.waiters = SelectSeq(@, LAMBDA w : w # i)]
           s1 == IF s0.value > 0 THEN WakeSem(s0, tasks) ELSE s0
           t1 == IF s0.value > 0 THEN WakeTasks(s0, tasks) ELSE tasks
       IN  \E initOk \in BOOLEAN : Admit(i, initOk, t1, s1)
    /\ UNCHANGED <<pc, runs, caStatus, task_spec, results, setupState,
                   setupAgent, nextStart, ret, regAtStart, metrics, validated>>
    /\ UNCHANGED <<report, worker, ers>>

(* The worker's execute returns: the worker is completed, the slot is
   released and gather() stores the result. *)
TaskReturn(i) ==
    /\ pc = "features"
    /\ i \in 1..Len(tasks)
    /\ tasks[i].pc = "running"
    /\ LET payload == plan.phases[2].tasks[i].task_spec
           result == [feature_name |-> payload.feature_name]
           t1 == [tasks EXCEPT ![i].pc = "done"]
       IN  /\ managed_agents' =
                  SetAgentStatus(managed_agents, tasks[i].agent, "completed")
           /\ gathered' = GatherPlace(gathered, i, Res(result))
           /\ finished' = Append(finished, i)
           /\ tasks' = ReleaseTasks(sem, t1)
           /\ sem' = ReleaseSem(sem, t1)
    /\ UNCHANGED <<pc, runs, caStatus, task_spec, plan, results, setupState,
                   setupAgent, nextStart, ret, regAtStart, featCtor, spawned,
                   metrics, validated>>
    /\ UNCHANGED <<report, worker, ers>>

(* The worker's execute raises: the worker records the error (status
   error) and re-raises, the slot is released and gather() stores the
   exception. *)
TaskRaise(i) ==
    /\ pc = "features"
    /\ i \in 1..Len(tasks)
    /\ tasks[i].pc = "running"
    /\ LET t1 == [tasks EXCEPT ![i].pc = "failed"]
       IN  /\ managed_agents' =
                  SetAgentStatus(managed_agents, tasks[i].agent, "error")
           /\ gathered' = GatherPlace(gathered, i, Exc("WorkerError"))
           /\ finished' = Append(finished, i)
           /\ tasks' = ReleaseTasks(sem, t1)
           /\ sem' = ReleaseSem(sem, t1)
    /\ UNCHANGED <<pc, runs, caStatus, task_spec, plan, results, setupState,
                   setupAgent, nextStart, ret, regAtStart, featCtor, spawned,
                   metrics, validated>>
    /\ UNCHANGED <<report, worker, ers>>

(* Every child is done: gather() completes and execute runs to its end. *)
FinishRun ==
    /\ pc = "features"
    /\ Len(tasks) > 0
    /\ \A i \in 1..Len(tasks) : Terminal(tasks[i])
    /\ Finish(results, gathered, managed_agents)
    /\ UNCHANGED <<runs, task_spec, plan, setupState, setupAgent, tasks,
                   gathered, sem, nextStart, regAtStart, featCtor, finished,
                   spawned, validated>>
    /\ UNCHANGED <<report, worker, ers>>

(* The caller passes the returned result to CoordinationAgent.validate. *)
ValidateCall ==
    /\ pc = "returned"
    /\ ~validated.called
    /\ validated' = [called |-> TRUE, value |-> Validate(ret)]
    /\ UNCHANGED <<pc, runs, caStatus, managed_agents, task_spec, plan, results,
                   setupState, setupAgent, tasks, gathered, sem, nextStart, ret,
                   regAtStart, featCtor, finished, spawned, metrics>>
    /\ UNCHANGED <<report, worker, ers>>

(* _validate_results called on the execution result of the returned run *)
ValidateResultsCall ==
    /\ pc = "returned"
    /\ ~report.computed
    /\ LET eff == ValidateResultsEffect(results, managed_agents)
       IN  /\ report' = [computed |-> TRUE, validation |-> eff.validation]
           /\ managed_agents' = eff.managed_agents
           /\ results' = eff.execution_result
    /\ UNCHANGED <<pc, runs, caStatus, task_spec, plan, setupState, setupAgent,
                   tasks, gathered, sem, nextStart, ret, regAtStart, featCtor,
                   finished, spawned, metrics, validated, worker, ers>>

----------------------------------------------------------------------------
(* Emergency stop *)

(* BaseAgent.stop: the status becomes stopped, whatever it was *)
Stop(agent) == UpdateStatus(agent, "stopped")

(* a plausible slip: only the agents still at work are stopped *)
EmergencyStop_busyonly ==
    /\ \/ caStatus # "stopped"
       \/ \E j \in 1..Len(managed_agents) : managed_agents[j].status # "stopped"
    /\ managed_agents' =
          [j \in 1..Len(managed_agents) |->
              IF managed_agents[j].status = "executing"
              THEN Stop(managed_agents[j]) ELSE managed_agents[j]]
    /\ caStatus' = "stopped"
    /\ UNCHANGED <<pc, runs, task_spec, plan, results, setupState, setupAgent,
                   tasks, gathered, sem, nextStart, ret, regAtStart, featCtor,
                   finished, spawned, metrics, validated>>
    /\ UNCHANGED <<report, worker, ers>>

(* CoordinationAgent.emergency_stop: every managed agent is stopped, then
   the coordinator.  BaseAgent.stop has no suspending await, so the call is
   one step; it can come whenever the event loop is free, also in the
   middle of a run, whose pending worker calls it does not interrupt.  A
   call that finds everything stopped already changes nothing. *)
EmergencyStop ==
    /\ \/ caStatus # "stopped"
       \/ \E j \in 1..Len(managed_agents) : managed_agents[j].status # "stopped"
    /\ managed_agents' =
          [j \in 1..Len(managed_agents) |-> Stop(managed_agents[j])]
    /\ caStatus' = "stopped"
    /\ UNCHANGED <<pc, runs, task_spec, plan, results, setupState, setupAgent,
                   tasks, gathered, sem, nextStart, ret, regAtStart, featCtor,
                   finished, spawned, metrics, validated>>
    /\ UNCHANGED <<report, worker, ers>>

----------------------------------------------------------------------------
Next ==
    \/ \E fs \in FeatureLists, k \in 1..MaxParallel : Execute(fs, k)
    \/ \E id \in ProjectIds : SetupReturn(id)
    \/ SetupRaise
    \/ \E i \in 1..MaxFeatures : StartTask(i)
    \/ \E i \in 1..MaxFeatures : Resume(i)
    \/ \E i \in 1..MaxFeatures : TaskReturn(i)
    \/ \E i \in 1..MaxFeatures : TaskRaise(i)
    \/ FinishRun
    \/ ValidateCall

Spec == Init /\ [][Next]_vars

----------------------------------------------------------------------------
(* One run on a fresh coordinator whose max_parallel may be any integer:
   the values a caller can pass that the spec calls invalid are included. *)

InvalidParallel == {-1, 0}

NextAnyParallel ==
    \/ \E fs \in FeatureLists, k \in InvalidParallel \cup (1..MaxParallel) :
            runs = 0 /\ Execute(fs, k)
    \/ \E id \in ProjectIds : SetupReturn(id)
    \/ SetupRaise
    \/ \E i \in 1..MaxFeatures : StartTask(i)
    \/ \E i \in 1..MaxFeatures : Resume(i)
    \/ \E i \in 1..MaxFeatures : TaskReturn(i)
    \/ \E i \in 1..MaxFeatures : TaskRaise(i)
    \/ FinishRun
    \/ ValidateCall

SpecAnyParallel == Init /\ [][NextAnyParallel]_vars

----------------------------------------------------------------------------
(* One run on a fresh coordinator whose plan may name any worker type.
   _plan_tasks itself writes only the two known names; the other value
   stands for a plan built by a caller or by another planner, which
   _execute_plan, _execute_sequential and _execute_parallel accept. *)

WorkerTypes == {"GenesisSetupAgent", "GenesisFeatureAgent", "UnknownAgent"}

(* the plan with its setup task retyped st and its feature tasks ft *)
RetypePlan(p, st, ft) ==
    [p EXCEPT !.phases[1].tasks = [j \in DOMAIN @ |-> [@[j] EXCEPT !.agent = st]],
              !.phases[2].tasks = [j \in DOMAIN @ |-> [@[j] EXCEPT !.agent = ft]]]

(* _execute_sequential constructs a worker only under
   agent_type == "GenesisSetupAgent"; any other task is skipped *)
SequentialRuns(task) == task.agent = "GenesisSetupAgent"

(* execute on such a plan, up to the first suspension.  A setup task that
   _execute_sequential skips leaves the phase result empty, and
   phase_result[0] raises IndexError out of execute; execute_with_limit
   never reads a task's type. *)
ExecuteTyped(fs, k, st, ft) ==
    /\ pc = "idle"
    /\ runs = 0
    /\ runs' = runs + 1
    /\ LET ts == [description |-> "x", project_type |-> None,
                  features |-> fs, max_parallel |-> k]
           p == RetypePlan(PlanExecution(PlanTasks(ts), ts), st, ft)
           id == NextAgentId("gsa", managed_agents)
           agent == UpdateStatus(Initialize(
                        NewAgent(id, "GenesisSetupAgent")), "executing")
       IN  /\ task_spec' = ts
           /\ plan' = p
           /\ IF SequentialRuns(p.phases[1].tasks[1])
              THEN /\ setupAgent' = id
                   /\ spawned' = <<id>>
                   /\ \E initOk \in BOOLEAN :
                        IF initOk
                        THEN /\ managed_agents' = Register(managed_agents, agent)
                             /\ setupState' = "running"
                             /\ caStatus' = "executing"
                             /\ pc' = "setup"
                        ELSE /\ managed_agents' = managed_agents
                             /\ setupState' = "raised"
                             /\ caStatus' = "error"
                             /\ pc' = "raised"
              ELSE /\ setupAgent' = NoAgent
                   /\ spawned' = <<>>
                   /\ managed_agents' = managed_agents
                   /\ setupState' = "none"
                   /\ caStatus' = "error"
                   /\ pc' = "raised"
    /\ results' = EmptyResults
    /\ tasks' = <<>>
    /\ gathered' = <<>>
    /\ sem' = NoSemaphore
    /\ nextStart' = 1
    /\ ret' = NoResult
    /\ regAtStart' = Len(managed_agents)
    /\ featCtor' = 0
    /\ finished' = <<>>
    /\ metrics' = NoMetrics
    /\ validated' = NotValidated
    /\ UNCHANGED <<report, worker, ers>>

NextAnyType ==
    \/ \E fs \in FeatureLists, k \in 1..MaxParallel, st, ft \in WorkerTypes :
            ExecuteTyped(fs, k, st, ft)
    \/ \E id \in ProjectIds : SetupReturn(id)
    \/ SetupRaise
    \/ \E i \in 1..MaxFeatures : StartTask(i)
    \/ \E i \in 1..MaxFeatures : Resume(i)
    \/ \E i \in 1..MaxFeatures : TaskReturn(i)
    \/ \E i \in 1..MaxFeatures : TaskRaise(i)
    \/ FinishRun
    \/ ValidateCall

SpecAnyType == Init /\ [][NextAnyType]_vars

----------------------------------------------------------------------------
(* One run on a fresh coordinator with a valid spec *)

NextFirstRun ==
    \/ \E fs \in FeatureLists, k \in 1..MaxParallel : runs = 0 /\ Execute(fs, k)
    \/ \E id \in ProjectIds : SetupReturn(id)
    \/ SetupRaise
    \/ \E i \in 1..MaxFeatures : StartTask(i)
    \/ \E i \in 1..MaxFeatures : Resume(i)
    \/ \E i \in 1..MaxFeatures : TaskReturn(i)
    \/ \E i \in 1..MaxFeatures : TaskRaise(i)
    \/ FinishRun
    \/ ValidateCall

(* ... during which emergency_stop may be called at any time *)
NextStop ==
    \/ NextFirstRun
    \/ EmergencyStop

SpecStop == Init /\ [][NextStop]_vars

(* ... in which every worker call ends and the event loop runs every
   coroutine that is ready *)
Fairness ==
    /\ WF_vars((\E id \in ProjectIds : SetupReturn(id)) \/ SetupRaise)
    /\ \A i \in 1..MaxFeatures : WF_vars(StartTask(i))
    /\ \A i \in 1..MaxFeatures : WF_vars(Resume(i))
    /\ \A i \in 1..MaxFeatures : WF_vars(TaskReturn(i) \/ TaskRaise(i))
    /\ WF_vars(FinishRun)

SpecLive == Init /\ [][NextFirstRun]_vars /\ Fairness

----------------------------------------------------------------------------
(* The task tracking of one agent under execute calls made on it by its
   callers.  execute is a coroutine: a second call can begin while an
   earlier one is suspended in an await. *)

MaxCalls == 4

(* execute up to its first await: _track_task_start *)
WorkerExecuteStart ==
    /\ worker.tasks_executed < MaxCalls
    /\ worker' = [TrackTaskStart(worker) EXCEPT !.in_flight = @ + 1]
    /\ UNCHANGED <<coordVars, report, ers>>

(* a suspended call returns: _track_task_complete(success=True) *)
WorkerExecuteReturn ==
    /\ worker.in_flight > 0
    /\ worker' = [TrackTaskComplete(worker, TRUE) EXCEPT !.in_flight = @ - 1]
    /\ UNCHANGED <<coordVars, report, ers>>

(* a suspended call raises: _handle_error, _track_task_complete(success=False) *)
WorkerExecuteRaise ==
    /\ worker.in_flight > 0
    /\ worker' = [TrackTaskComplete(HandleError(worker), FALSE)
                      EXCEPT !.in_flight = @ - 1]
    /\ UNCHANGED <<coordVars, report, ers>>

NextWorker ==
    \/ WorkerExecuteStart
    \/ WorkerExecuteReturn
    \/ WorkerExecuteRaise

SpecWorker == Init /\ [][NextWorker]_vars

----------------------------------------------------------------------------
(* ErrorRecoverySystem.  Error messages and patterns are strings, here
   sequences of characters, so that the case-insensitive substring test of
   handle_error is computed and not assumed. *)

MaxErrors == 2

Messages == {<<"A", "b">>, <<"b">>}
PatternStrings == {<<>>, <<"a">>, <<"B">>}
ErrorTypes == {"api_timeout", "validation_error"}

(* str.lower() *)
Lower(c) == IF c = "A" THEN "a" ELSE IF c = "B" THEN "b" ELSE c
LowerStr(str) == [i \in 1..Len(str) |-> Lower(str[i])]

(* p in m *)
IsSubstring(p, m) ==
    \E k \in 0..(Len(m) - Len(p)) : \A i \in 1..Len(p) : m[k + i] = p[i]

(* pattern.lower() in str(error).lower() *)
Matches(pattern, msg) == IsSubstring(LowerStr(pattern), LowerStr(msg))

(* the two dicts error_patterns and recovery_strategies, which register
   writes together, as one sequence in insertion order; strategy is FALSE
   for a value that tests false (None) *)
PatternIndex(ps, et) ==
    IF \E j \in 1..Len(ps) : ps[j].error_type = et
    THEN CHOOSE j \in 1..Len(ps) : ps[j].error_type = et
    ELSE 0

(* register_pattern: a new key is appended, a known key keeps its place *)
RegisterEntry(ps, et, pattern, strategy) ==
    LET e == [error_type |-> et, pattern |-> pattern, strategy |-> strategy]
    IN  IF PatternIndex(ps, et) = 0 THEN Append(ps, e)
        ELSE [ps EXCEPT ![PatternIndex(ps, et)] = e]

(* a plausible slip: the loop ends when a strategy has raised *)
NextMatch_stop(ps, msg, from) ==
    IF from > 1 THEN 0
    ELSE IF \E j \in from..Len(ps) : Matches(ps[j].pattern, msg) /\ ps[j].strategy
    THEN CHOOSE j \in from..Len(ps) :
            /\ Matches(ps[j].pattern, msg) /\ ps[j].strategy
            /\ \A h \in from..(j - 1) :
                    ~(Matches(ps[h].pattern, msg) /\ ps[h].strategy)
    ELSE 0

(* the loop of handle_error from entry from on: the next entry whose
   pattern matches and whose strategy is set, 0 when the loop runs out *)
NextMatch(ps, msg, from) ==
    IF \E j \in from..Len(ps) : Matches(ps[j].pattern, msg) /\ ps[j].strategy
    THEN CHOOSE j \in from..Len(ps) :
            /\ Matches(ps[j].pattern, msg) /\ ps[j].strategy
            /\ \A h \in from..(j - 1) :
                    ~(Matches(ps[h].pattern, msg) /\ ps[h].strategy)
    ELSE 0

(* error_info as handle_error first builds it *)
NewErrorInfo(msg) ==
    [error_message |-> msg,
     recovered |-> FALSE,
     recovery_method |-> None,
     recovery_failed |-> FALSE,
     escalated_to_human |-> FALSE]

(* the lines after the loop: escalate to a human *)
Escalate(info) == [info EXCEPT !.escalated_to_human = TRUE]

(* the lines after a strategy that returned *)
Recover(info, et) == [info EXCEPT !.recovered = TRUE, !.recovery_method = et]

(* get_error_statistics *)
GetErrorStatistics(e) ==
    [total_errors |-> Len(e.error_history),
     recovered |-> Cardinality({j \in 1..Len(e.error_history) :
                                    e.error_history[j].recovered})]

(* handle_error running on from position j of the loop: it either waits
   for the strategy at j or, with j = 0, escalates and returns.  call is
   the call's record: the error, its entry in the history, the position it
   waits at, the positions whose strategy raised for it *)
Continue(e, c, j) ==
    IF j = 0
    THEN [e EXCEPT !.error_history[e.calls[c].entry] = Escalate(@),
                   !.calls[c].pos = 0,
                   !.calls[c].done = TRUE]
    ELSE [e EXCEPT !.calls[c].pos = j]

NoCallInFlight == \A c \in 1..Len(ers.calls) : ers.calls[c].done

(* register_pattern, called while no handle_error call is suspended *)
RegisterPattern(et, pattern, strategy) ==
    /\ NoCallInFlight
    /\ ers' = [ers EXCEPT !.error_patterns =
                              RegisterEntry(@, et, pattern, strategy)]
    /\ ers' # ers
    /\ UNCHANGED <<coordVars, report, worker>>

(* handle_error up to its first await, or to its return *)
HandleErrorCall(msg) ==
    /\ Len(ers.calls) < MaxErrors
    /\ LET c == Len(ers.calls) + 1
           e1 == [ers EXCEPT
                    !.error_history = Append(@, NewErrorInfo(msg)),
                    !.calls = Append(@, [error |-> msg,
                                         entry |-> Len(ers.error_history) + 1,
                                         pos |-> 0,
                                         raised |-> {},
                                         done |-> FALSE])]
       IN  ers' = Continue(e1, c, NextMatch(ers.error_patterns, msg, 1))
    /\ UNCHANGED <<coordVars, report, worker>>

(* the awaited strategy returns: the call returns recovered *)
StrategyReturns(c) ==
    /\ c \in 1..Len(ers.calls)
    /\ ~ers.calls[c].done
    /\ LET call == ers.calls[c]
           et == ers.error_patterns[call.pos].error_type
       IN  ers' = [ers EXCEPT !.error_history[call.entry] = Recover(@, et),
                              !.calls[c].done = TRUE]
    /\ UNCHANGED <<coordVars, report, worker>>

(* the awaited strategy raises: the failure is noted and the loop goes on *)
StrategyRaises(c) ==
    /\ c \in 1..Len(ers.calls)
    /\ ~ers.calls[c].done
    /\ LET call == ers.calls[c]
           e1 == [ers EXCEPT
                    !.error_history[call.entry].recovery_failed = TRUE,
                    !.calls[c].raised = @ \cup {call.pos}]
       IN  ers' = Continue(e1, c,
                      NextMatch(ers.error_patterns, call.error, call.pos + 1))
    /\ UNCHANGED <<coordVars, report, worker>>

NextErrors ==
    \/ \E et \in ErrorTypes, pattern \in PatternStrings, strategy \in BOOLEAN :
            RegisterPattern(et, pattern, strategy)
    \/ \E msg \in Messages : HandleErrorCall(msg)
    \/ \E c \in 1..MaxErrors : StrategyReturns(c)
    \/ \E c \in 1..MaxErrors : StrategyRaises(c)

SpecErrors == Init /\ [][NextErrors]_vars

----------------------------------------------------------------------------
(* validate(result) and _validate_results on any result dict: project ids
   null, empty and non-empty, any features list, any small registry *)

ResultIds == {None, "", "p1"}
AgentStatuses == {"completed", "error", "executing", "stopped"}
MaxAgents == 2

(* a registry as a run fills it: the setup worker first, feature workers
   after it, with the given statuses *)
RegistryOf(sts) ==
    [j \in 1..Len(sts) |->
        [id |-> <<IF j = 1 THEN "gsa" ELSE "gfa", j>>,
         type |-> IF j = 1 THEN "GenesisSetupAgent" ELSE "GenesisFeatureAgent",
         status |-> sts[j]]]

Registries ==
    {RegistryOf(sts) : sts \in UNION {[1..n -> AgentStatuses] : n \in 0..MaxAgents}}

InitValidate ==
    /\ pc = "returned"
    /\ runs = 1
    /\ caStatus = "completed"
    /\ managed_agents \in Registries
    /\ task_spec = [description |-> "x", project_type |-> None,
                    features |-> <<>>, max_parallel |-> DefaultMaxParallel]
    /\ plan = NoPlan
    /\ \E id \in ResultIds, fs \in FeatureLists :
          /\ results = [project_id |-> id, features |-> fs,
                        phase_results |-> <<>>, duration |-> 0]
          /\ ret = [returned |-> TRUE,
                    project_id |-> id,
                    features_completed |-> fs,
                    total_time_seconds |-> 0,
                    parallel_speedup |-> One,
                    validation |-> ValidateResults(results, managed_agents)]
    /\ setupState = "returned"
    /\ setupAgent = NoAgent
    /\ tasks = <<>>
    /\ gathered = <<>>
    /\ sem = NoSemaphore
    /\ nextStart = 1
    /\ regAtStart = 0
    /\ featCtor = 0
    /\ finished = <<>>
    /\ spawned = <<>>
    /\ metrics = NoMetrics
    /\ validated = NotValidated
    /\ report = NoReport
    /\ worker = NewWorker
    /\ ers = NewErrorRecoverySystem

NextValidate ==
    \/ ValidateCall
    \/ ValidateResultsCall

SpecValidate == InitValidate /\ [][NextValidate]_vars

----------------------------------------------------------------------------
(* Vocabulary of the properties *)

NumTasks == Len(tasks)
Requested == task_spec.features
RunReturned == pc = "returned"
NewEntries == (regAtStart + 1)..Len(managed_agents)
Indices(n) == [i \in 1..n |-> i]

(* a feature worker of this run exists or has existed *)
FeatureWorkerSeen ==
    \/ featCtor > 0
    \/ \E i \in 1..NumTasks : tasks[i].pc \in {"running", "done", "failed"}
    \/ \E j \in NewEntries : managed_agents[j].type = "GenesisFeatureAgent"

(* feature tasks holding a pool slot *)
InFlight == {i \in 1..NumTasks : tasks[i].pc \in {"woken", "running"}}

(* positions of the feature tasks that returned, ascending *)
Succeeded == SelectSeq(Indices(NumTasks), LAMBDA i : tasks[i].pc = "done")

(* out lists entries of inp in inp's relative order *)
InOrderOf(out, inp) ==
    \E f \in [1..Len(out) -> 1..Len(inp)] :
        /\ \A j \in 1..Len(out) : out[j] = inp[f[j]]
        /\ \A j, h \in 1..Len(out) : j < h => f[j] < f[h]

FeaturesPhaseResult == results.phase_results[2]

----------------------------------------------------------------------------
(* C1: while the setup task has not returned or raised, no feature worker
   of the run has been constructed, registered or executed; whenever one
   has, the setup task is terminal and the setup worker's status is final. *)
C1_SetupPrecedesFeatures ==
    (Len(Requested) > 0 /\ FeatureWorkerSeen) =>
        /\ setupState \in {"returned", "raised"}
        /\ pc # "setup"
        /\ \A j \in 1..Len(managed_agents) :
              managed_agents[j].id = setupAgent =>
                  managed_agents[j].status \in {"completed", "error"}

C1_Witness ==
    /\ setupState = "returned"
    /\ \E i \in 1..NumTasks : tasks[i].pc = "running"
    /\ \E i \in 1..NumTasks : tasks[i].pc = "waiting"

(* C2: in the Features phase the number of feature tasks holding a pool
   slot never exceeds max_parallel. *)
C2_BoundedInFlight ==
    pc = "features" => Cardinality(InFlight) <= task_spec.max_parallel

C2_Witness ==
    /\ pc = "features"
    /\ task_spec.max_parallel = 2
    /\ Cardinality(InFlight) = 2
    /\ \E i \in 1..NumTasks : tasks[i].pc = "failed"
    /\ \E i \in 1..NumTasks : tasks[i].pc = "woken"

(* C3: once the setup task has failed, the run has constructed no feature
   worker, started no feature task and added no feature agent to the
   registry. *)
C3_NoFeatureWorkerAfterSetupFailure ==
    setupState = "raised" =>
        /\ featCtor = 0
        /\ \A i \in 1..NumTasks : tasks[i].pc = "created"
        /\ \A j \in NewEntries : managed_agents[j].type # "GenesisFeatureAgent"

C3_Witness ==
    /\ setupState = "raised"
    /\ Len(Requested) > 0
    /\ \E j \in NewEntries : /\ managed_agents[j].id = setupAgent
                             /\ managed_agents[j].status = "error"

(* C4: when the setup task has failed, execute does not raise, and it
   returns a result with a null project_id and an empty features list. *)
C4_SetupFailureReturnsEmptyResult ==
    setupState = "raised" =>
        /\ pc # "raised"
        /\ RunReturned => /\ ret.project_id = None
                          /\ ret.features_completed = <<>>

(* C5: when the run returns, every feature task has ended, and the
   features list is the names of the tasks that returned, one per task;
   the name of a task that raised is there only if a task that returned
   has the same name. *)
C5_FailuresIsolated ==
    (RunReturned /\ setupState = "returned") =>
        /\ \A i \in 1..NumTasks : Terminal(tasks[i])
        /\ ret.features_completed =
              [j \in 1..Len(Succeeded) |-> Requested[Succeeded[j]]]
        /\ \A i \in 1..NumTasks :
              (/\ tasks[i].pc = "failed"
               /\ \A h \in 1..NumTasks :
                     tasks[h].pc = "done" => Requested[h] # Requested[i])
              => \A j \in 1..Len(ret.features_completed) :
                     ret.features_completed[j] # Requested[i]

C5_Witness ==
    /\ RunReturned
    /\ NumTasks = 3
    /\ tasks[1].pc = "done"
    /\ tasks[2].pc = "failed"
    /\ tasks[3].pc = "done"

(* C6: once setup has succeeded the run never ends by raising: when it
   ends, execute has returned a result and the coordinator is completed. *)
C6_FeatureFailureNotRaised ==
    setupState = "returned" =>
        /\ pc # "raised"
        /\ RunReturned => (ret.returned /\ caStatus = "completed")

C6_Witness ==
    /\ RunReturned
    /\ NumTasks >= 2
    /\ \A i \in 1..NumTasks : tasks[i].pc = "failed"
    /\ caStatus = "completed"

(* C7: the features list and the Features phase's results are in the
   relative order of the input features, also when the workers ended in
   another order. *)
C7_OrderStable ==
    RunReturned =>
        /\ InOrderOf(ret.features_completed, Requested)
        /\ InOrderOf(FeatureNamesOf(FeaturesPhaseResult), Requested)
        /\ Len(Succeeded) = NumTasks => ret.features_completed = Requested

C7_Witness ==
    /\ RunReturned
    /\ Requested = <<"a", "b", "a">>
    /\ finished = <<2, 3, 1>>
    /\ ret.features_completed = <<"a", "b", "a">>

AllWorkersSucceeded ==
    /\ RunReturned
    /\ setupState = "returned"
    /\ \A i \in 1..NumTasks : tasks[i].pc = "done"

ReportedId == results.phase_results[1][1].project_id

C10_PlanShape ==
    plan # NoPlan =>
        /\ Len(plan.phases) = 2
        /\ plan.phases[1].name = "Setup"
        /\ plan.phases[1].parallel = FALSE
        /\ Len(plan.phases[1].tasks) = 1
        /\ plan.phases[1].tasks[1].agent = "GenesisSetupAgent"
        /\ plan.phases[1].tasks[1].dependencies = <<>>
        /\ plan.phases[2].name = "Features"
        /\ plan.phases[2].parallel = TRUE
        /\ Len(plan.phases[2].tasks) = Len(Requested)
        /\ \A i \in 1..Len(Requested) :
              /\ plan.phases[2].tasks[i].agent = "GenesisFeatureAgent"
              /\ plan.phases[2].tasks[i].feature_name = Requested[i]
              /\ plan.phases[2].tasks[i].task_spec.feature_name = Requested[i]
              /\ plan.phases[2].tasks[i].dependencies = <<"setup">>
              /\ plan.phases[2].tasks[i].parallel = TRUE

C10_Witness ==
    /\ pc = "setup"
    /\ Requested = <<"b", "b", "a">>
    /\ Len(plan.phases[2].tasks) = 3

(* C11: a run whose max_parallel is below 1 ends by raising, with no
   worker constructed and no task executed. *)
C11_InvalidParallelRejected ==
    (runs > 0 /\ task_spec.max_parallel < 1) =>
        /\ pc = "raised"
        /\ spawned = <<>>
        /\ setupState = "none"
        /\ Len(managed_agents) = regAtStart

(* C12: with an empty feature list the run returns in the step in which
   the setup worker returns: the Features phase has run with no task and no
   feature worker, features is empty and project_id is the setup's. *)
C12_EmptyFeatureList ==
    (Requested = <<>> /\ setupState = "returned") =>
        /\ RunReturned
        /\ ret.features_completed = <<>>
        /\ ret.project_id = ReportedId
        /\ Len(results.phase_results) = 2
        /\ FeaturesPhaseResult = <<>>
        /\ featCtor = 0
        /\ Len(managed_agents) = regAtStart + 1

C12_Witness ==
    /\ RunReturned
    /\ Requested = <<>>
    /\ ret.project_id = "p1"
    /\ ret.features_completed = <<>>

(* C13: when the setup task reported a project identifier (a non-empty
   one), the payload of every feature task whose worker has been dispatched
   carries that identifier. *)
Dispatched(i) == tasks[i].agent # NoAgent

Payload(i) == plan.phases[2].tasks[i].task_spec

RegisteredInRun ==
    Cardinality({i \in 1..NumTasks : Dispatched(i)})
        + (IF setupState \in {"running", "returned"} THEN 1
           ELSE IF \E j \in NewEntries : managed_agents[j].id = setupAgent
                THEN 1 ELSE 0)

C14_UniqueWorkerIds ==
    /\ \A a, b \in 1..Len(spawned) : a # b => spawned[a] # spawned[b]
    /\ runs > 0 => Len(managed_agents) - regAtStart = RegisteredInRun

(* C15: the report's all_agents_succeeded is true exactly when every agent
   in the registry is completed. *)
C15_AllAgentsSucceededIff ==
    RunReturned =>
        (ret.validation.all_agents_succeeded
            <=> \A j \in 1..Len(managed_agents) :
                    managed_agents[j].status = "completed")

C15_Witness ==
    /\ RunReturned
    /\ runs = 2
    /\ Len(managed_agents) >= 3
    /\ managed_agents[1].status = "error"
    /\ \A j \in 2..Len(managed_agents) : managed_agents[j].status = "completed"
    /\ ~ret.validation.all_agents_succeeded

(* C16: when agents are not completed, failed_agent is the id of the first
   of them in the registry's order. *)
NotCompleted == {j \in 1..Len(managed_agents) :
                    managed_agents[j].status # "completed"}

FirstNotCompleted ==
    managed_agents[CHOOSE j \in NotCompleted :
                        \A h \in NotCompleted : j <= h].id

C16_FirstFailedAgent ==
    (RunReturned /\ NotCompleted # {}) =>
        ret.validation.failed_agent = FirstNotCompleted

(* C17: validate(result) answers true exactly when the report for the same
   result has project_created and features_completed > 0. *)
C17_ValidateMatchesReport ==
    validated.called =>
        (validated.value
            <=> (/\ ret.validation.project_created
                 /\ ret.validation.features_completed > 0))

(* C18: estimated_sequential_seconds is 900 + 1800 n; the speedup is that
   number divided by the duration when the duration is positive, and 1.0
   when it is 0. *)
C18_Metrics ==
    metrics.computed =>
        LET n == Len(Requested)
            d == results.duration
            est == 900 + 1800 * n
        IN  /\ metrics.estimated_sequential_seconds = est
            /\ d > 0 => SameNumber(metrics.speedup, [num |-> est, den |-> d])
            /\ d = 0 => SameNumber(metrics.speedup, [num |-> 1, den |-> 1])
            /\ RunReturned => ret.parallel_speedup = metrics.speedup
            /\ (n = 2 /\ d = 900) =>
                    /\ metrics.estimated_sequential_seconds = 4500
                    /\ SameNumber(metrics.speedup, [num |-> 5, den |-> 1])

C18_Witness ==
    /\ metrics.computed
    /\ Len(Requested) = 2
    /\ results.duration = 900
    /\ metrics.estimated_sequential_seconds = 4500
    /\ SameNumber(metrics.speedup, [num |-> 5, den |-> 1])
    /\ RunReturned

(* C19: a step of emergency_stop leaves every agent that was in the
   registry, and the coordinator, stopped. *)
C19_StopStopsAll ==
    [][EmergencyStop =>
          /\ caStatus' = "stopped"
          /\ Len(managed_agents') = Len(managed_agents)
          /\ \A j \in 1..Len(managed_agents) :
                /\ managed_agents'[j].id = managed_agents[j].id
                /\ managed_agents'[j].status = "stopped"]_vars

C19_Witness ==
    /\ pc = "features"
    /\ caStatus = "stopped"
    /\ Len(managed_agents) = 3
    /\ \A j \in 1..Len(managed_agents) : managed_agents[j].status = "stopped"
    /\ tasks[1].pc = "failed"
    /\ tasks[2].pc = "running"

(* C20: every run that reached its setup task ends; every feature task of
   a Features phase reaches a terminal state and the run returns. *)
C20_RunTerminates ==
    /\ (pc = "setup") ~> (pc \in {"returned", "raised"})
    /\ (pc = "features") ~> RunReturned
    /\ \A i \in 1..MaxFeatures :
          (pc = "features" /\ i <= NumTasks)
              ~> (i <= NumTasks /\ Terminal(tasks[i]) /\ i <= featCtor)

C20_Witness ==
    /\ RunReturned
    /\ task_spec.max_parallel = 1
    /\ NumTasks = 3
    /\ featCtor = 3
    /\ tasks[1].pc = "failed"
    /\ tasks[2].pc = "failed"
    /\ tasks[3].pc = "done"

(* C21: a plan with a task of an unrecognized worker type, in the
   sequential or in the parallel phase, makes the run raise before any task
   of the plan executes: no worker's execute is called and nothing is
   returned. *)
KnownTypes == {"GenesisSetupAgent", "GenesisFeatureAgent"}

UnknownTypeInPlan ==
    \E ph \in 1..Len(plan.phases) : \E j \in 1..Len(plan.phases[ph].tasks) :
        plan.phases[ph].tasks[j].agent \notin KnownTypes

WorkersOfRun == 1 + Cardinality({i \in 1..NumTasks : Dispatched(i)})

C22_AgentsUsedPerRun ==
    metrics.computed => metrics.agents_used = WorkersOfRun

Admitted(t) == t.pc \in {"running", "done", "failed"}

C24_AdmittedInListOrder ==
    \A i, j \in 1..NumTasks :
        (i < j /\ Admitted(tasks[j])) => Admitted(tasks[i])

C24_Witness ==
    /\ pc = "features"
    /\ NumTasks = 3
    /\ task_spec.max_parallel = 2
    /\ finished = <<2>>
    /\ tasks[1].pc = "running"
    /\ tasks[3].pc = "running"

(* C25: once stopped, an agent and the coordinator stay stopped: the end
   of a worker call that was in flight when emergency_stop ran does not
   move them to another status. *)
C25_StoppedStaysStopped ==
    [][/\ caStatus = "stopped" => caStatus' = "stopped"
       /\ \A j \in 1..Len(managed_agents) :
             managed_agents[j].status = "stopped"
                 => managed_agents'[j].status = "stopped"]_vars

(* C26: after emergency_stop during a Features phase, a feature task that
   was still waiting for a pool slot is not admitted: no worker is
   constructed, registered or executed for it. *)
StoppedInFeatures == pc = "features" /\ caStatus = "stopped"

C26_NoAdmissionAfterStop ==
    [][StoppedInFeatures =>
          \A i \in 1..NumTasks :
              tasks[i].pc \in {"waiting", "woken"}
                  => /\ tasks'[i].pc \in {"waiting", "woken"}
                     /\ tasks'[i].agent = NoAgent]_vars

(* C27: on a fresh coordinator, a run with a failed feature task reports
   all_agents_succeeded = false; a report with all_agents_succeeded = true
   has one feature name per requested feature. *)
C27_FailedTaskClearsFlag ==
    (RunReturned /\ runs = 1) =>
        /\ (\E i \in 1..NumTasks : tasks[i].pc = "failed")
                => ~ret.validation.all_agents_succeeded
        /\ ret.validation.all_agents_succeeded
                => Len(ret.features_completed) = Len(Requested)

(* C28: a feature worker only ever executes with a payload that carries a
   non-null project identifier. *)
C28_PayloadHasProjectId ==
    \A i \in 1..NumTasks :
        Dispatched(i) =>
            /\ "project_id" \in DOMAIN Payload(i)
            /\ Payload(i)["project_id"] # None

(* C29: for an agent, after any sequence of execute calls, overlapping
   ones included, tasks_executed = tasks_succeeded + tasks_failed + (1 if a
   task is in progress), and the logged errors number tasks_failed. *)
C29_TaskAccounting ==
    /\ worker.tasks_executed
           = worker.tasks_succeeded + worker.tasks_failed
               + (IF worker.current_task.in_progress THEN 1 ELSE 0)
    /\ worker.errors = worker.tasks_failed

(* C30: every handle_error call appends exactly one entry to the history
   and returns either recovered, by the first matching strategy in
   registration order that did not raise, or escalated to a human, never
   both and never neither; a strategy that raised does not keep later
   matching strategies from being tried. *)
Candidates(call) ==
    {j \in 1..Len(ers.error_patterns) :
        /\ Matches(ers.error_patterns[j].pattern, call.error)
        /\ ers.error_patterns[j].strategy}

OutcomeOk(c) ==
    LET call == ers.calls[c]
        info == ers.error_history[call.entry]
    IN  /\ info.recovered # info.escalated_to_human
        /\ info.recovered =>
              \E j \in Candidates(call) :
                  /\ info.recovery_method = ers.error_patterns[j].error_type
                  /\ j \notin call.raised
                  /\ \A h \in Candidates(call) : h < j => h \in call.raised
        /\ info.escalated_to_human =>
              /\ Candidates(call) \subseteq call.raised
              /\ info.recovery_method = None

ReturnsNow(c) ==
    /\ c \in 1..Len(ers'.calls)
    /\ ers'.calls[c].done
    /\ c \in 1..Len(ers.calls) => ~ers.calls[c].done

OneEntryPerCall ==
    /\ GetErrorStatistics(ers).total_errors = Len(ers.calls)
    /\ \A c \in 1..Len(ers.calls) :
          /\ ers.calls[c].entry = c
          /\ ers.error_history[c].error_message = ers.calls[c].error
          /\ ~ers.calls[c].done =>
                /\ ~ers.error_history[c].recovered
                /\ ~ers.error_history[c].escalated_to_human

====
